---- MODULE Spec2Model ----
(***************************************************************************)
(* Health-check execution engine of check-cx: the single-provider check    *)
(* runner with its request-aborted retry policy (checkWithRetry), the      *)
(* bounded-concurrency scheduler (runProviderChecks) and the error-message *)
(* helpers they call (getErrorMessage, logError).                          *)
(*                                                                         *)
(* Text is modelled as a sequence of tokens.  A token [w, off, len] stands *)
(* for the len characters of the substring w that follow its first off     *)
(* characters; a whole token has off = 0 and len = FullLen(w).             *)
(* Concatenation is \o, String.slice cuts tokens.                          *)
(***************************************************************************)
EXTENDS Integers, Sequences, FiniteSets, TLC

\* ------------------------------------------------------------------------
\* Bounds of the model
\* ------------------------------------------------------------------------
MaxConfigs == 3
MaxLimit == 2

\* ------------------------------------------------------------------------
\* Text
\* ------------------------------------------------------------------------
FullLen(w) ==
  CASE w = "Request was aborted" -> 19
    [] w = "request was aborted." -> 20
    [] w = "REQUEST WAS ABORTED" -> 19
    [] w = "Unauthorized" -> 12
    [] w = "Bad Gateway" -> 11
    [] w = "quota exceeded" -> 14
    [] w = "Incorrect API key provided: " -> 28
    [] w = "sk-live-9f8e7d6c5b4a3210" -> 24
    [] w = "upstream said: " -> 15
    [] w = "<html><body>502 Bad Gateway: the upstream server closed the connection before the reply arrived " -> 96
    [] w = "event:error data:{" -> 18
    [] w = "{" -> 1
    [] w = "}" -> 1
    [] w = "null" -> 4
    [] w = "OK" -> 2
    [] w = "[401] " -> 6
    [] w = "[499] " -> 6
    [] w = "[502] " -> 6
    [] w = "<unknown error>" -> 4
    [] w = "***" -> 3
    [] w = "Error: " -> 7
    [] w = " at <stack frames>" -> 18
    [] w = "Error" -> 5
    [] w = "Bearer " -> 7
    [] w = "abc123" -> 6
    [] w = "sk-12345" -> 8
    [] w = "sk-123456" -> 9
    [] OTHER -> 0

Tok(w) == [w |-> w, off |-> 0, len |-> FullLen(w)]

RECURSIVE TextLen(_)
TextLen(t) == IF t = <<>> THEN 0 ELSE Head(t).len + TextLen(Tail(t))

\* String.prototype.slice(0, n): the first n characters
RECURSIVE SliceText(_, _)
SliceText(t, n) ==
  IF t = <<>> \/ n <= 0 THEN <<>>
  ELSE IF Head(t).len <= n
       THEN <<Head(t)>> \o SliceText(Tail(t), n - Head(t).len)
       ELSE <<[w |-> Head(t).w, off |-> Head(t).off, len |-> n]>>

\* String.prototype.slice(-n): the last n characters
RECURSIVE SliceLast(_, _)
SliceLast(t, n) ==
  IF t = <<>> \/ n <= 0 THEN <<>>
  ELSE LET last == t[Len(t)]
       IN IF last.len <= n
          THEN SliceLast(SubSeq(t, 1, Len(t) - 1), n - last.len) \o <<last>>
          ELSE <<[w |-> last.w, off |-> last.off + last.len - n, len |-> n]>>

\* String.prototype.toLowerCase, on the words that differ in case only
LowerCase(w) ==
  CASE w = "Request was aborted" -> "request was aborted"
    [] w = "REQUEST WAS ABORTED" -> "request was aborted"
    [] OTHER -> w

\* the text shows one of the words in full
Contains(t, words) ==
  \E i \in 1..Len(t) : t[i].w \in words /\ t[i].off = 0 /\ t[i].len = FullLen(t[i].w)

\* ------------------------------------------------------------------------
\* lib/utils/error-handler.ts
\* ------------------------------------------------------------------------
\* Thrown values.  kind "Error": instanceof Error, with message, optional
\* statusCode (0 = absent) and optional responseBody; kind "string": a thrown
\* string (kept in message); kind "other": any other thrown value.
\* A responseBody carries its text (raw) and what the parsers make of it:
\*   "absent"   undefined or ""
\*   "text"     not JSON, no SSE data line
\*   "json"     a JSON object; msg = data.message, emsg = data.error.message
\*   "jsonnull" the JSON literal null
\*   "sse"      an SSE error event whose data line parses to an object
\*   "ssebad"   an SSE error event whose data line does not parse
\* (<<>> stands for an absent or empty string: both are falsy).
NoBody == [kind |-> "absent", raw |-> <<>>, msg |-> <<>>, emsg |-> <<>>]

extractErrorFromResponseBody(responseBody) ==
  IF responseBody.kind = "sse" /\ responseBody.msg # <<>> THEN responseBody.msg
  ELSE IF responseBody.kind = "sse" /\ responseBody.emsg # <<>> THEN responseBody.emsg
  ELSE IF responseBody.kind = "json" /\ responseBody.msg # <<>> THEN responseBody.msg
  ELSE IF responseBody.kind = "json" /\ responseBody.emsg # <<>> THEN responseBody.emsg
  ELSE IF responseBody.kind = "json" THEN <<>>
  ELSE IF TextLen(responseBody.raw) > 0 THEN SliceText(responseBody.raw, 100)
  ELSE <<>>

StatusPrefix(statusCode) ==
  CASE statusCode = 401 -> <<Tok("[401] ")>>
    [] statusCode = 499 -> <<Tok("[499] ")>>
    [] statusCode = 502 -> <<Tok("[502] ")>>
    [] OTHER -> <<>>

\* the literal of error-handler.ts line 171
UnknownErrorText == <<Tok("<unknown error>")>>

getErrorMessage(error) ==
  IF error.kind = "Error"
  THEN LET extracted == IF error.responseBody.raw # <<>>
                        THEN extractErrorFromResponseBody(error.responseBody)
                        ELSE <<>>
       IN IF extracted # <<>> THEN StatusPrefix(error.statusCode) \o extracted
          ELSE IF error.statusCode # 0
               THEN StatusPrefix(error.statusCode) \o error.message
               ELSE error.message
  ELSE IF error.kind = "string" THEN error.message
  ELSE UnknownErrorText

\* Values handed to the sanitizer: [t, s, n, kids] with t the type, s the
\* text of a string (or the message of an Error), n the number, kids the
\* own enumerable properties [key, value] of an object or an Error (the
\* elements of an array), in order.
JsUndefined == [t |-> "undefined", s |-> <<>>, n |-> 0, kids |-> <<>>]
JsString(text) == [t |-> "string", s |-> text, n |-> 0, kids |-> <<>>]
JsNumber(n) == [t |-> "number", s |-> <<>>, n |-> n, kids |-> <<>>]
JsObject(kids) == [t |-> "object", s |-> <<>>, n |-> 0, kids |-> kids]
JsArray(items) == [t |-> "array", s |-> <<>>, n |-> 0, kids |-> items]
JsError(message, kids) == [t |-> "Error", s |-> message, n |-> 0, kids |-> kids]
Prop(key, value) == [key |-> key, value |-> value]

\* SENSITIVE_PATTERNS.test(key), on the property names of the model:
\* /api[_-]?key|secret|token|password|authorization|bearer|credential/i
SENSITIVE_PATTERNS(key) ==
  key \in {"apiKey", "api_key", "Authorization", "token", "maxTokens", "password",
           "credentials", "clientSecret", "bearer"}

sanitizeValue(value) ==
  IF value.t = "string"
  THEN IF TextLen(value.s) <= 8
       THEN value
       ELSE JsString(SliceText(value.s, 4) \o <<Tok("***")>> \o SliceLast(value.s, 4))
  ELSE value

\* error.stack of an Error: its name and message, then the frames
StackOf(message) == <<Tok("Error: ")>> \o message \o <<Tok(" at <stack frames>")>>

RECURSIVE sanitizeError(_)
sanitizeError(error) ==
  LET Sanitized(kids) ==
        [i \in DOMAIN kids |->
           Prop(kids[i].key,
                IF SENSITIVE_PATTERNS(kids[i].key)
                THEN sanitizeValue(kids[i].value)
                ELSE sanitizeError(kids[i].value))]
  IN IF error.t \in {"null", "undefined", "string", "number", "boolean"}
     THEN error
     ELSE IF error.t = "array"
     THEN JsArray([i \in DOMAIN error.kids |->
                     Prop(error.kids[i].key, sanitizeError(error.kids[i].value))])
     ELSE IF error.t = "Error"
     THEN JsObject(<<Prop("name", JsString(<<Tok("Error")>>)),
                     Prop("message", JsString(error.s)),
                     Prop("stack", JsString(StackOf(error.s)))>>
                   \o Sanitized(error.kids))
     ELSE JsObject(Sanitized(error.kids))

\* A thrown value as the sanitizer sees it: the own properties of an
\* AI_APICallError are statusCode and responseBody, when set, and its others
ThrownValue(error) ==
  IF error.kind = "Error"
  THEN JsError(error.message,
               (IF error.statusCode # 0
                THEN <<Prop("statusCode", JsNumber(error.statusCode))>> ELSE <<>>)
               \o (IF error.responseBody.raw # <<>>
                   THEN <<Prop("responseBody", JsString(error.responseBody.raw))>>
                   ELSE <<>>)
               \o error.props)
  ELSE IF error.kind = "string" THEN JsString(error.message)
  ELSE JsObject(error.props)

\* console.error(`[check-cx] ${context}:`, sanitized)
logError(context, error) ==
  [level |-> "error", context |-> context, ordinal |-> 0,
   payload |-> sanitizeError(ThrownValue(error))]

\* ------------------------------------------------------------------------
\* Provider check entry: retry policy
\* ------------------------------------------------------------------------
MAX_REQUEST_ABORT_RETRIES == 2

\* REQUEST_ABORTED_PATTERN.test(message): /request was aborted\.?/i finds the
\* phrase anywhere in the text, in any case; the full stop is optional.
REQUEST_ABORTED_PATTERN(message) ==
  \E i \in 1..Len(message) :
    /\ LowerCase(message[i].w) \in {"request was aborted", "request was aborted."}
    /\ message[i].off = 0
    /\ message[i].len >= 19

\* a classifier that lets every non-empty message through
shouldRetryNonEmpty(message) == message # <<>>

shouldRetryRequestAborted(message) ==
  IF message = <<>> THEN FALSE ELSE REQUEST_ABORTED_PATTERN(message)

\* the test with <= in place of <
AttemptsRemainInclusive(attempt) == attempt <= MAX_REQUEST_ABORT_RETRIES

\* the test "attempt < MAX_REQUEST_ABORT_RETRIES" of lines 29 and 43
AttemptsRemain(attempt) == attempt < MAX_REQUEST_ABORT_RETRIES

\* null of latencyMs / pingLatencyMs (measured latencies are >= 0)
Null == -1

Statuses == {"operational", "degraded", "failed", "validation_failed", "error"}

ProviderConfig(id, name) ==
  [id |-> id, name |-> name, type |-> "openai", endpoint |-> id, model |-> "gpt"]

\* A CheckResult as the provider check function builds it for a config
ProviderResult(config, status, message, latencyMs, checkedAt) ==
  [id |-> config.id, name |-> config.name, type |-> config.type,
   endpoint |-> config.endpoint, model |-> config.model,
   status |-> status, latencyMs |-> latencyMs,
   pingLatencyMs |-> IF latencyMs = Null THEN Null ELSE 30,
   checkedAt |-> checkedAt, message |-> message]

\* the terminal result with the status of a semantic failure
ErrorResultAsFailed(config, message, now) ==
  [id |-> config.id, name |-> config.name, type |-> config.type,
   endpoint |-> config.endpoint, model |-> config.model,
   status |-> "failed", latencyMs |-> Null, pingLatencyMs |-> Null,
   checkedAt |-> now, message |-> message]

\* lines 54-65: the terminal result synthesized in the catch block
ErrorResult(config, message, now) ==
  [id |-> config.id, name |-> config.name, type |-> config.type,
   endpoint |-> config.endpoint, model |-> config.model,
   status |-> "error", latencyMs |-> Null, pingLatencyMs |-> Null,
   checkedAt |-> now, message |-> message]

NoResult == ProviderResult(ProviderConfig("", ""), "none", <<>>, Null, 0)
NoError ==
  [kind |-> "none", message |-> <<>>, statusCode |-> 0, responseBody |-> NoBody,
   props |-> <<>>]

Returns(result) == [kind |-> "return", result |-> result, error |-> NoError]
Throws(error) == [kind |-> "throw", result |-> NoResult, error |-> error]

\* the retry test of a returned result without the message test
RetryReturnedAnyMessage(result, attempt) ==
  result.status = "failed" /\ AttemptsRemain(attempt)

\* the retry test of a returned result without the status test
RetryReturnedAnyStatus(result, attempt) ==
  shouldRetryRequestAborted(result.message) /\ AttemptsRemain(attempt)

\* lines 26-30: a returned result that is retried
RetryReturned(result, attempt) ==
  /\ result.status = "failed"
  /\ shouldRetryRequestAborted(result.message)
  /\ AttemptsRemain(attempt)

\* the retry test of a thrown error without the message test
RetryThrownAlways(message, attempt) == AttemptsRemain(attempt)

\* lines 41-44: a thrown error that is retried
RetryThrown(message, attempt) ==
  shouldRetryRequestAborted(message) /\ AttemptsRemain(attempt)

\* console.warn of lines 31-35 and 45-49
RetryWarning(config, attempt) ==
  [level |-> "warn", context |-> config.name, ordinal |-> attempt + 2,
   payload |-> JsUndefined]

\* "continue": attempt += 1, then the loop test of line 23; when the test
\* fails the function leaves the loop and throws (line 70).
Continue(config, attempt) ==
  [pc |-> IF attempt + 1 <= MAX_REQUEST_ABORT_RETRIES THEN "calling" ELSE "thrown",
   attempt |-> attempt + 1, result |-> NoResult,
   log |-> <<RetryWarning(config, attempt)>>]

\* One pass of the loop body of checkWithRetry after the awaited provider
\* check of this attempt has settled with outcome; now is the clock.
checkWithRetry(config, attempt, outcome, now) ==
  IF outcome.kind = "return"
  THEN IF RetryReturned(outcome.result, attempt)
       THEN Continue(config, attempt)
       ELSE [pc |-> "returned", attempt |-> attempt, result |-> outcome.result,
             log |-> <<>>]
  ELSE LET message == getErrorMessage(outcome.error)
       IN IF RetryThrown(message, attempt)
          THEN Continue(config, attempt)
          ELSE [pc |-> "returned", attempt |-> attempt,
                result |-> ErrorResult(config, message, now),
                log |-> <<logError(config.name, outcome.error)>>]

\* ------------------------------------------------------------------------
\* What the externally supplied provider check may do on one attempt
\* ------------------------------------------------------------------------
AbortText == <<Tok("Request was aborted")>>
SecretText == <<Tok("sk-live-9f8e7d6c5b4a3210")>>
LongHtml == <<Tok("<html><body>502 Bad Gateway: the upstream server closed the connection before the reply arrived ")>>

Err(message, statusCode, responseBody) ==
  [kind |-> "Error", message |-> message, statusCode |-> statusCode,
   responseBody |-> responseBody, props |-> <<>>]
TextBody(raw) == [kind |-> "text", raw |-> raw, msg |-> <<>>, emsg |-> <<>>]
JsonBody(msg, emsg) ==
  [kind |-> "json", raw |-> <<Tok("{")>> \o msg \o emsg \o <<Tok("}")>>,
   msg |-> msg, emsg |-> emsg]
SseBody(kind, msg, emsg) ==
  [kind |-> kind, raw |-> <<Tok("event:error data:{")>> \o msg \o emsg \o <<Tok("}")>>,
   msg |-> msg, emsg |-> emsg]

ThrownErrors ==
  { Err(AbortText, 0, NoBody),
    Err(<<Tok("request was aborted.")>>, 0, NoBody),
    Err(AbortText, 499, NoBody),
    Err(<<>>, 0, NoBody),
    Err(<<Tok("Unauthorized")>>, 401, NoBody),
    Err(<<Tok("Incorrect API key provided: ")>> \o SecretText, 401, NoBody),
    Err(<<Tok("Bad Gateway")>>, 502, TextBody(<<Tok("upstream said: ")>> \o AbortText)),
    Err(<<Tok("Bad Gateway")>>, 502, TextBody(LongHtml \o AbortText)),
    Err(AbortText, 0, JsonBody(<<Tok("quota exceeded")>>, <<>>)),
    Err(<<Tok("Bad Gateway")>>, 502, JsonBody(<<>>, <<Tok("request was aborted.")>>)),
    Err(<<Tok("Unauthorized")>>, 401, JsonBody(<<>>, <<>>)),
    Err(<<Tok("Bad Gateway")>>, 0, SseBody("sse", AbortText, <<>>)),
    Err(<<Tok("Bad Gateway")>>, 502, SseBody("sse", <<>>, <<>>)),
    Err(<<Tok("Unauthorized")>>, 401, SseBody("ssebad", SecretText, <<>>)),
    Err(<<Tok("Bad Gateway")>>, 0,
        [kind |-> "jsonnull", raw |-> <<Tok("null")>>, msg |-> <<>>, emsg |-> <<>>]),
    [Err(<<Tok("Unauthorized")>>, 401, NoBody) EXCEPT !.props =
       <<Prop("requestHeaders",
              JsObject(<<Prop("Authorization", JsString(<<Tok("Bearer ")>> \o SecretText)),
                         Prop("token", JsString(<<Tok("abc123")>>))>>))>>],
    [kind |-> "string", message |-> AbortText, statusCode |-> 0, responseBody |-> NoBody,
     props |-> <<>>],
    [kind |-> "other", message |-> <<>>, statusCode |-> 0, responseBody |-> NoBody,
     props |-> <<Prop("apiKey", JsString(SecretText))>>] }

ResultMessages ==
  { <<>>, <<Tok("OK")>>, AbortText, <<Tok("REQUEST WAS ABORTED")>>,
    <<Tok("quota exceeded")>> }

\* every outcome of one attempt for config at time now
ProviderOutcomes(config, now) ==
  { Returns(ProviderResult(config, st, m, IF st = "error" THEN Null ELSE 120, now)) :
      st \in Statuses, m \in ResultMessages }
  \cup { Throws(e) : e \in ThrownErrors }

\* the outcomes used when several checks run side by side
BatchOutcomes(config, now) ==
  { Returns(ProviderResult(config, "operational", <<Tok("OK")>>, 120, now)),
    Throws(Err(AbortText, 0, NoBody)),
    Throws(Err(<<Tok("Unauthorized")>>, 401, NoBody)) }

RetryConfigs == { ProviderConfig("p1", "Alpha"), ProviderConfig("p2", "mu") }

\* ------------------------------------------------------------------------
\* lib/providers/challenge.ts
\* A string is the sequence of its characters.
\* ------------------------------------------------------------------------
MaxResponseLen == 4
MaxAnswerLen == 2
RandomSteps == 50

Digits == {"0", "1", "2", "3", "4", "5", "6", "7", "8", "9"}

DigitChar(d) == <<"0", "1", "2", "3", "4", "5", "6", "7", "8", "9">>[d + 1]

RECURSIVE DecimalDigits(_)
DecimalDigits(n) ==
  IF n < 10 THEN <<DigitChar(n)>>
  ELSE DecimalDigits(n \div 10) \o <<DigitChar(n % 10)>>

\* String(n) of an integer: its decimal digits, after a minus sign when n < 0
String(n) == IF n < 0 THEN <<"-">> \o DecimalDigits(0 - n) ELSE DecimalDigits(n)

\* Math.random(): the values k / RandomSteps of [0, 1), written as k
MathRandom == 0..(RandomSteps - 1)

\* Math.floor(Math.random() * 50) + 1
RandomOperand(r) == ((r * 50) \div RandomSteps) + 1

\* Math.random() > 0.5
IsAddition(r) == 2 * r > RandomSteps

\* the template literals `${x} + ${y} = ?` and `${x} - ${y} = ?`
Question(x, op, y) ==
  String(x) \o <<" ", op, " ">> \o String(y) \o <<" ", "=", " ", "?">>

\* the prompt: the instruction line, the two worked examples, the question
buildPromptWithExamples(question) ==
  [instruction |-> "Calculate and respond with ONLY the number, nothing else.",
   examples |-> << [q |-> Question(3, "+", 5), a |-> String(8)],
                   [q |-> Question(12, "-", 7), a |-> String(5)] >>,
   question |-> question]

\* the first operand taken for the larger one
LargerIsFirst(a, b) == a

\* Math.max(a, b)
Larger(a, b) == IF a >= b THEN a ELSE b

\* Math.min(a, b)
Smaller(a, b) == IF a <= b THEN a ELSE b

\* generateChallenge, given the three values Math.random() returned
generateChallenge(r1, r2, r3) ==
  LET a == RandomOperand(r1)
      b == RandomOperand(r2)
      isAddition == IsAddition(r3)
      challenge ==
        IF isAddition
        THEN [prompt |-> buildPromptWithExamples(Question(a, "+", b)),
              expectedAnswer |-> String(a + b)]
        ELSE LET larger == Larger(a, b)
                 smaller == Smaller(a, b)
             IN [prompt |-> buildPromptWithExamples(Question(larger, "-", smaller)),
                 expectedAnswer |-> String(larger - smaller)]
  IN [a |-> a, b |-> b, isAddition |-> isAddition, challenge |-> challenge]

\* where a match of /-?\d+/ that starts at pos ends, 0 when there is none:
\* an optional minus sign, then as many digits as follow, at least one
MatchEnd(s, pos) ==
  LET first == IF s[pos] = "-" THEN pos + 1 ELSE pos
  IN IF first > Len(s) \/ s[first] \notin Digits
     THEN 0
     ELSE CHOOSE e \in first..Len(s) :
            /\ \A k \in first..e : s[k] \in Digits
            /\ e = Len(s) \/ s[e + 1] \notin Digits

\* the g flag: the leftmost match from pos on, then on from where it ended
RECURSIVE MatchAll(_, _)
MatchAll(s, pos) ==
  IF pos > Len(s) THEN <<>>
  ELSE LET e == MatchEnd(s, pos)
       IN IF e = 0 THEN MatchAll(s, pos + 1)
          ELSE <<SubSeq(s, pos, e)>> \o MatchAll(s, e + 1)

\* null, and an array of matches
NullMatch == [isNull |-> TRUE, items |-> <<>>]

MatchArray(items) == [isNull |-> FALSE, items |-> items]

\* response.match(/-?\d+/g): null when nothing matches
match(response) ==
  LET found == MatchAll(response, 1)
  IN IF found = <<>> THEN NullMatch ELSE MatchArray(found)

\* a test for the answer inside a number in place of equality with it
includesSubstring(numbers, expectedAnswer) ==
  \E i \in DOMAIN numbers :
    \E from \in 1..Len(numbers[i]) :
      SubSeq(numbers[i], from, from + Len(expectedAnswer) - 1) = expectedAnswer

\* numbers.includes(expectedAnswer)
includes(numbers, expectedAnswer) ==
  \E i \in DOMAIN numbers : numbers[i] = expectedAnswer

\* the guard without its test of expectedAnswer
IsMissingResponse(response, expectedAnswer) == response = <<>>

\* !response || !expectedAnswer
IsMissing(response, expectedAnswer) == response = <<>> \/ expectedAnswer = <<>>

validateResponse(response, expectedAnswer) ==
  IF IsMissing(response, expectedAnswer)
  THEN [valid |-> FALSE, extractedNumbers |-> NullMatch]
  ELSE LET numbers == match(response)
       IN IF numbers.isNull
          THEN [valid |-> FALSE, extractedNumbers |-> NullMatch]
          ELSE [valid |-> includes(numbers.items, expectedAnswer),
                extractedNumbers |-> numbers]

\* the strings the calls are made with
ResponseChars == {"1", "8", "-", "x"}

AnswerChars == {"1", "8", "-"}

Responses == UNION { [1..n -> ResponseChars] : n \in 0..MaxResponseLen }

ExpectedAnswers == UNION { [1..n -> AnswerChars] : n \in 0..MaxAnswerLen }

\* ------------------------------------------------------------------------
\* app/api/v1/status/route.ts, computeStatistics
\* A number with two decimals is kept as its count of hundredths.
\* ------------------------------------------------------------------------
MaxItems == 5

\* Math.round(num / den) for den > 0: the nearest integer, a half going up
MathRound(num, den) == (2 * num + den) \div (2 * den)

\* Math.min(...xs) and Math.max(...xs) of a non-empty array
MathMin(xs) == CHOOSE x \in { xs[i] : i \in DOMAIN xs } : \A i \in DOMAIN xs : x <= xs[i]

MathMax(xs) == CHOOSE x \in { xs[i] : i \in DOMAIN xs } : \A i \in DOMAIN xs : x >= xs[i]

\* xs.reduce((a, b) => a + b, 0)
RECURSIVE reduce(_)
reduce(xs) == IF xs = <<>> THEN 0 ELSE reduce(SubSeq(xs, 1, Len(xs) - 1)) + xs[Len(xs)]

\* a switch whose other statuses fall into the case of "failed"
CountOfDefaultFailed(items, status) ==
  Cardinality({ i \in DOMAIN items :
                  \/ items[i].status = status
                  \/ status = "failed" /\ items[i].status = "error" })

\* the counter a case of the switch increments, over the whole loop
CountOf(items, status) == Cardinality({ i \in DOMAIN items : items[i].status = status })

\* an array that takes a latency of null as 0
LatenciesNullAsZero(items) ==
  [i \in DOMAIN items |-> IF items[i].latencyMs = Null THEN 0 ELSE items[i].latencyMs]

\* the array latencies after the loop
Latencies(items) ==
  LET measured == SelectSeq(items, LAMBDA item : item.latencyMs # Null)
  IN [i \in DOMAIN measured |-> measured[i].latencyMs]

\* a success count of the operational checks alone
SuccessCountOperational(operationalCount, degradedCount) == operationalCount

\* line 111
SuccessCount(operationalCount, degradedCount) == operationalCount + degradedCount

\* the mean taken over all the items
LatencyDivisorItems(latencies, items) == Len(items)

\* the divisor of line 119
LatencyDivisor(latencies, items) == Len(latencies)

\* statistics of an empty list that report full success
EmptyStatisticsFullRate ==
  [totalChecks |-> 0, operationalCount |-> 0, degradedCount |-> 0, failedCount |-> 0,
   validationFailedCount |-> 0, successRate |-> 10000,
   avgLatencyMs |-> Null, minLatencyMs |-> Null, maxLatencyMs |-> Null]

\* lines 72-82
EmptyStatistics ==
  [totalChecks |-> 0, operationalCount |-> 0, degradedCount |-> 0, failedCount |-> 0,
   validationFailedCount |-> 0, successRate |-> 0,
   avgLatencyMs |-> Null, minLatencyMs |-> Null, maxLatencyMs |-> Null]

computeStatistics(items) ==
  IF Len(items) = 0 THEN EmptyStatistics
  ELSE
    LET operationalCount == CountOf(items, "operational")
        degradedCount == CountOf(items, "degraded")
        failedCount == CountOf(items, "failed")
        validationFailedCount == CountOf(items, "validation_failed")
        latencies == Latencies(items)
        successCount == SuccessCount(operationalCount, degradedCount)
        measured == Len(latencies) > 0
    IN [totalChecks |-> Len(items),
        operationalCount |-> operationalCount,
        degradedCount |-> degradedCount,
        failedCount |-> failedCount,
        validationFailedCount |-> validationFailedCount,
        successRate |-> MathRound(successCount * 100 * 100, Len(items)),
        avgLatencyMs |-> IF measured
                         THEN MathRound(reduce(latencies), LatencyDivisor(latencies, items))
                         ELSE Null,
        minLatencyMs |-> IF measured THEN MathMin(latencies) ELSE Null,
        maxLatencyMs |-> IF measured THEN MathMax(latencies) ELSE Null]

\* the rows of check history the lists are made of
HistoryItem(status, latencyMs) == [status |-> status, latencyMs |-> latencyMs]

HistoryItems ==
  { HistoryItem("operational", 100), HistoryItem("operational", 101),
    HistoryItem("degraded", 6000), HistoryItem("degraded", Null),
    HistoryItem("failed", 0), HistoryItem("failed", Null),
    HistoryItem("validation_failed", 101), HistoryItem("error", Null) }

ItemLists == UNION { [1..n -> HistoryItems] : n \in 0..MaxItems }

\* ------------------------------------------------------------------------
\* Client cache and cache key (part_001)
\* A Map is known by its reference, a position in the heap; the reference 0
\* is undefined.
\* ------------------------------------------------------------------------
MaxCalls == 3
MaxKeys == 3

GlobalCacheKey ==
  {"__CHECK_CX_OPENAI_CLIENTS__", "__CHECK_CX_GEMINI_CLIENTS__",
   "__CHECK_CX_ANTHROPIC_CLIENTS__"}

\* the cache keys and the clients the callers store
CacheKeys == {"https://api.example/v1::key"}

Clients == {"client1", "client2"}

\* new Map(): no key has an entry
EmptyMap == [k \in CacheKeys |-> "none"]

\* a test that finds no map
NeverTruthy(existing) == FALSE

\* line 51, if (existing): a Map is truthy, undefined is not
IsTruthy(existing) == existing # 0

\* lines 48-55: the globals and the heap after the call, and the map returned
getOrCreateClientCache(g, h, globalKey) ==
  LET existing == g[globalKey]
  IN IF IsTruthy(existing)
     THEN [globalThis |-> g, heap |-> h, cache |-> existing]
     ELSE LET cache == Len(h) + 1
          IN [globalThis |-> [g EXCEPT ![globalKey] = cache],
              heap |-> Append(h, EmptyMap),
              cache |-> cache]

\* a Record<string, string> with its properties in the order of definition,
\* null and undefined
Record(props) == [t |-> "object", props |-> props]

JsNull == [t |-> "null", props |-> <<>>]

JsAbsent == [t |-> "undefined", props |-> <<>>]

\* the UTF-16 code units of the property names of the model
CodeUnits(k) ==
  CASE k = "b" -> <<98>>
    [] k = "ab" -> <<97, 98>>
    [] k = "B" -> <<66>>

\* the order of Array.prototype.sort() without a comparator: by code units
CodeUnitBefore(x, y) ==
  LET cx == CodeUnits(x)
      cy == CodeUnits(y)
  IN \/ Len(cx) < Len(cy) /\ SubSeq(cy, 1, Len(cx)) = cx
     \/ \E i \in 1..Len(cx) :
          /\ i <= Len(cy)
          /\ SubSeq(cx, 1, i - 1) = SubSeq(cy, 1, i - 1)
          /\ cx[i] < cy[i]

\* Object.keys(obj): the names in the order of definition
ObjectKeys(obj) == [i \in DOMAIN obj.props |-> obj.props[i].key]

\* the keys left as they come
unsorted(keys) == keys

\* keys.sort(), for names that differ from each other
sort(keys) ==
  [p \in DOMAIN keys |->
     CHOOSE k \in { keys[i] : i \in DOMAIN keys } :
       Cardinality({ i \in DOMAIN keys : CodeUnitBefore(keys[i], k) }) = p - 1]

\* obj[k]
Get(obj, k) == obj.props[CHOOSE i \in DOMAIN obj.props : obj.props[i].key = k].value

\* parts.join("&"), each part being `${k}=${obj[k]}`: a string is the
\* sequence of its pieces
join(obj, keys) ==
  [p \in 1..(IF keys = <<>> THEN 0 ELSE 4 * Len(keys) - 1) |->
     LET k == keys[((p - 1) \div 4) + 1]
     IN CASE (p - 1) % 4 = 0 -> k
          [] (p - 1) % 4 = 1 -> "="
          [] (p - 1) % 4 = 2 -> Get(obj, k)
          [] OTHER -> "&"]

stableStringify(obj) ==
  IF obj.t # "object" THEN <<>>
  ELSE LET sortedKeys == sort(ObjectKeys(obj))
       IN join(obj, sortedKeys)

\* the objects the calls are made with
StringifyKeys == {"b", "ab", "B"}

StringifyValues == {"1", "2"}

\* up to MaxKeys names, each once, in an order of definition
KeyOrders ==
  { ks \in UNION { [1..n -> StringifyKeys] : n \in 0..MaxKeys } :
      \A i \in DOMAIN ks, j \in DOMAIN ks : i # j => ks[i] # ks[j] }

RecordsOf(ks) ==
  { Record([i \in DOMAIN ks |-> Prop(ks[i], vs[i])]) : vs \in [DOMAIN ks -> StringifyValues] }

Records == UNION { RecordsOf(ks) : ks \in KeyOrders }

\* the arguments of two calls: any two of null, undefined and the records,
\* the records of a pair having the same names
ObjectPairs ==
  { <<a, b>> : a \in {JsNull, JsAbsent}, b \in {JsNull, JsAbsent, Record(<<>>)} }
  \cup UNION { { <<a, b>> : b \in UNION { RecordsOf(ks) :
                                 ks \in { o \in KeyOrders :
                                            { o[i] : i \in DOMAIN o }
                                            = { a.props[i].key : i \in DOMAIN a.props } } } }
              : a \in Records }

\* ------------------------------------------------------------------------
\* What logError may be given
\* ------------------------------------------------------------------------
MaxDepth == 2

LogKeys == {"apiKey", "credentials", "headers"}

LogStrings ==
  { JsString(<<Tok("sk-12345")>>), JsString(<<Tok("sk-123456")>>), JsString(SecretText) }

\* the values of nesting depth d or less: strings, a number, objects of
\* one property and arrays of one element
RECURSIVE LogValues(_)
LogValues(d) ==
  IF d = 0 THEN LogStrings \cup {JsNumber(7)}
  ELSE LogValues(d - 1)
       \cup { JsObject(<<Prop(k, v)>>) : k \in LogKeys, v \in LogValues(d - 1) }
       \cup { JsArray(<<Prop("0", v)>>) : v \in LogValues(d - 1) }

\* an Error, or a plain object, with one own property
LoggedErrors ==
  { [kind |-> kind, message |-> <<Tok("Unauthorized")>>, statusCode |-> 0,
     responseBody |-> NoBody, props |-> <<Prop(k, v)>>] :
      kind \in {"Error", "other"}, k \in LogKeys, v \in LogValues(MaxDepth) }

\* ------------------------------------------------------------------------
\* State
\* ------------------------------------------------------------------------
VARIABLES
  rConfig,    \* checkWithRetry: its argument
  rPc,        \* "idle", "calling" (awaiting the provider check), "returned", "thrown"
  rAttempt,   \* the loop variable attempt
  rCalls,     \* provider check invocations made so far
  rHist,      \* the outcomes of the settled attempts, in order
  rResult,    \* the value the promise resolved with
  rLog,       \* what went to console.warn / console.error
  configs,    \* runProviderChecks: its argument
  bPc,        \* "start", "awaiting" (Promise.all), "resolved", "rejected"
  limit,      \* the p-limit instance: concurrency, activeCount, queue
  limitReads, \* calls of getCheckConcurrency
  tPc,        \* per config: "queued", "calling", "returned", "thrown"
  tAttempt,   \* per config: the loop variable of its checkWithRetry
  tResult,    \* per config: the value its promise resolved with
  returned,   \* the array runProviderChecks resolved with
  vResponse,  \* validateResponse: its argument response
  vExpected,  \* validateResponse: its argument expectedAnswer
  vPc,        \* "idle", "returned"
  vResult,    \* the ValidationResult returned
  gPc,        \* generateChallenge: "idle", "returned"
  gDraws,     \* the locals a, b, isAddition of the call
  gChallenge, \* the Challenge returned
  sItems,     \* computeStatistics: its argument items
  sPc,        \* "idle", "returned"
  sStats,     \* the ProviderStatistics returned
  lError,     \* logError: its argument error
  lPc,        \* "idle", "returned"
  lEntry,     \* what went to console.error
  globalThis, \* getOrCreateClientCache: per global key the map it holds, 0 for undefined
  heap,       \* the Map objects created so far, by reference
  calls,      \* the calls made so far: key, map returned, its entries at that time
  kObjs,      \* stableStringify: the arguments of two calls
  kPc,        \* per call: "idle", "returned"
  kStrings    \* per call: the string returned

retryVars == <<rConfig, rPc, rAttempt, rCalls, rHist, rResult, rLog>>
batchVars == <<configs, bPc, limit, limitReads, tPc, tAttempt, tResult, returned>>
validateVars == <<vResponse, vExpected, vPc, vResult>>
challengeVars == <<gPc, gDraws, gChallenge>>
statisticsVars == <<sItems, sPc, sStats>>
logVars == <<lError, lPc, lEntry>>
cacheVars == <<globalThis, heap, calls>>
stringifyVars == <<kObjs, kPc, kStrings>>
vars == <<rConfig, rPc, rAttempt, rCalls, rHist, rResult, rLog,
          configs, bPc, limit, limitReads, tPc, tAttempt, tResult, returned,
          vResponse, vExpected, vPc, vResult, gPc, gDraws, gChallenge,
          sItems, sPc, sStats, lError, lPc, lEntry, globalThis, heap, calls,
          kObjs, kPc, kStrings>>

\* ------------------------------------------------------------------------
\* checkWithRetry, one call
\* ------------------------------------------------------------------------
\* line 23, first pass: attempt = 0 passes the loop test, line 25 calls the
\* provider check
RetryInvoke ==
  /\ rPc = "idle"
  /\ rPc' = "calling"
  /\ rAttempt' = 0
  /\ rCalls' = 1
  /\ UNCHANGED <<rConfig, rHist, rResult, rLog>>
  /\ UNCHANGED batchVars
  /\ UNCHANGED <<validateVars, challengeVars, statisticsVars>>
  /\ UNCHANGED <<logVars, cacheVars, stringifyVars>>

\* the awaited provider check settles; the loop body runs up to the next await
RetrySettle ==
  /\ rPc = "calling"
  /\ \E outcome \in ProviderOutcomes(rConfig, Len(rHist) + 1) :
       LET step == checkWithRetry(rConfig, rAttempt, outcome, Len(rHist) + 1)
       IN /\ rPc' = step.pc
          /\ rAttempt' = step.attempt
          /\ rResult' = step.result
          /\ rHist' = Append(rHist, outcome)
          /\ rCalls' = IF step.pc = "calling" THEN rCalls + 1 ELSE rCalls
          /\ rLog' = rLog \o step.log
  /\ UNCHANGED rConfig
  /\ UNCHANGED batchVars
  /\ UNCHANGED <<validateVars, challengeVars, statisticsVars>>
  /\ UNCHANGED <<logVars, cacheVars, stringifyVars>>

\* ------------------------------------------------------------------------
\* runProviderChecks
\* ------------------------------------------------------------------------
Names == {"Alpha", "mu", "Zeta"}

\* String.prototype.localeCompare: the collation order puts letters before
\* case, so "Alpha" < "mu" < "Zeta"
LocaleRank(name) ==
  CASE name = "Alpha" -> 1 [] name = "mu" -> 2 [] name = "Zeta" -> 3 [] OTHER -> 0

\* the order of the UTF-16 code units (the < operator): "Alpha" < "Zeta" < "mu"
CodeUnitRank(name) ==
  CASE name = "Alpha" -> 1 [] name = "Zeta" -> 2 [] name = "mu" -> 3 [] OTHER -> 0

Sign(n) == IF n < 0 THEN -1 ELSE IF n > 0 THEN 1 ELSE 0

codeUnitCompare(a, b) == Sign(CodeUnitRank(a) - CodeUnitRank(b))
localeCompare(a, b) == Sign(LocaleRank(a) - LocaleRank(b))

\* line 90: the comparator handed to sort
CompareByName(a, b) == localeCompare(a.name, b.name)

\* Array.prototype.sort with the comparator of line 90; the sort is stable:
\* an element goes behind those that compare smaller and behind the equal
\* ones that stood before it
SortResults(results) ==
  LET n == Len(results)
      Before(j, i) ==
        \/ CompareByName(results[j], results[i]) < 0
        \/ CompareByName(results[j], results[i]) = 0 /\ j < i
      Position(i) == Cardinality({ j \in 1..n : Before(j, i) }) + 1
  IN [k \in 1..n |-> results[CHOOSE i \in 1..n : Position(i) = k]]

IdOf(i) ==
  CASE i = 1 -> "p1" [] i = 2 -> "p2" [] i = 3 -> "p3" [] i = 4 -> "p4" [] OTHER -> "p5"

ConfigLists ==
  { [i \in DOMAIN names |-> ProviderConfig(IdOf(i), names[i])] :
      names \in UNION { [1..n -> Names] : n \in 0..MaxConfigs } }

\* the values getCheckConcurrency() may return: a positive integer
getCheckConcurrency == 1..MaxLimit

\* no p-limit instance yet
NoLimiter == [concurrency |-> 0, activeCount |-> 0, queue |-> <<>>]

\* no early return for an empty list
NeverEmptyBatch(cs) == FALSE

\* line 81
IsEmptyBatch(cs) == Len(cs) = 0

\* a limiter that never holds a function back
HasCapacityAlways(l) == TRUE

\* p-limit: a queued function may start while fewer than concurrency run
HasCapacity(l) == l.activeCount < l.concurrency

\* settling with the first promise that has resolved
AnySettled(pcs) == \E i \in DOMAIN pcs : pcs[i] = "returned"

\* Promise.all settles with all the results once every promise has resolved
AllSettled(pcs) == \A i \in DOMAIN pcs : pcs[i] = "returned"

\* lines 78-88, up to the await: an empty list returns at once; otherwise
\* the limiter is made with the configured concurrency and every config's
\* check is handed to it, in order
RunProviderChecks ==
  /\ bPc = "start"
  /\ IF IsEmptyBatch(configs)
     THEN /\ bPc' = "resolved"
          /\ returned' = <<>>
          /\ UNCHANGED <<limit, limitReads, tPc>>
     ELSE /\ \E concurrency \in getCheckConcurrency :
               limit' = [concurrency |-> concurrency, activeCount |-> 0,
                         queue |-> [i \in 1..Len(configs) |-> i]]
          /\ limitReads' = limitReads + 1
          /\ tPc' = [i \in 1..Len(configs) |-> "queued"]
          /\ bPc' = "awaiting"
          /\ UNCHANGED returned
  /\ UNCHANGED <<configs, tAttempt, tResult>>
  /\ UNCHANGED retryVars
  /\ UNCHANGED <<validateVars, challengeVars, statisticsVars>>
  /\ UNCHANGED <<logVars, cacheVars, stringifyVars>>

\* a queue that hands out the function that was enqueued last
DequeueLast(queue) ==
  [next |-> queue[Len(queue)], rest |-> SubSeq(queue, 1, Len(queue) - 1)]

\* p-limit's queue.dequeue(): the function that was enqueued first
Dequeue(queue) == [next |-> Head(queue), rest |-> Tail(queue)]

\* p-limit, after an enqueue: the head of the queue starts when there is
\* room; its checkWithRetry makes its first provider call
Admit ==
  /\ bPc = "awaiting"
  /\ limit.queue # <<>>
  /\ HasCapacity(limit)
  /\ limit' = [limit EXCEPT !.activeCount = @ + 1, !.queue = Dequeue(@).rest]
  /\ tPc' = [tPc EXCEPT ![Dequeue(limit.queue).next] = "calling"]
  /\ tAttempt' = [tAttempt EXCEPT ![Dequeue(limit.queue).next] = 0]
  /\ UNCHANGED <<configs, bPc, limitReads, tResult, returned>>
  /\ UNCHANGED retryVars
  /\ UNCHANGED <<validateVars, challengeVars, statisticsVars>>
  /\ UNCHANGED <<logVars, cacheVars, stringifyVars>>

\* p-limit next(): the finished function gives its slot back and the head of
\* the queue, if any, takes it at once
ReleaseSlot(l) ==
  IF l.queue = <<>>
  THEN [l EXCEPT !.activeCount = @ - 1]
  ELSE [l EXCEPT !.queue = Dequeue(@).rest]

\* the reading of the clock during a batch (new Date() of line 63)
BatchClock == 1

\* a limited function that ends with each attempt
HoldsSlotNever(pc) == FALSE

\* line 87: the function given to limit is the whole of checkWithRetry, so
\* it holds its slot for as long as the loop goes on
HoldsSlot(pc) == pc = "calling"

\* the provider check awaited by config i's checkWithRetry settles: the loop
\* body runs; a retry calls the provider again inside the same slot, a
\* return (or throw) ends the limited function
Settle(i) ==
  /\ i \in DOMAIN tPc
  /\ tPc[i] = "calling"
  /\ \E outcome \in BatchOutcomes(configs[i], BatchClock) :
       LET step == checkWithRetry(configs[i], tAttempt[i], outcome, BatchClock)
       IN IF HoldsSlot(step.pc)
          THEN /\ tAttempt' = [tAttempt EXCEPT ![i] = step.attempt]
               /\ UNCHANGED <<tPc, tResult, limit>>
          ELSE /\ tAttempt' = [tAttempt EXCEPT ![i] = 0]
               /\ tResult' = [tResult EXCEPT ![i] = step.result]
               /\ limit' = ReleaseSlot(limit)
               /\ tPc' = IF limit.queue = <<>>
                         THEN [tPc EXCEPT ![i] = step.pc]
                         ELSE [tPc EXCEPT ![i] = step.pc,
                                          ![Dequeue(limit.queue).next] = "calling"]
  /\ UNCHANGED <<configs, bPc, limitReads, returned>>
  /\ UNCHANGED retryVars
  /\ UNCHANGED <<validateVars, challengeVars, statisticsVars>>
  /\ UNCHANGED <<logVars, cacheVars, stringifyVars>>

\* lines 86-90: Promise.all settles, with a rejection as soon as one promise
\* has rejected and otherwise with every result in the order of configs;
\* the results are sorted by name and returned
Resolve ==
  /\ bPc = "awaiting"
  /\ \/ \E i \in DOMAIN tPc : tPc[i] = "thrown"
     \/ AllSettled(tPc)
  /\ IF \E i \in DOMAIN tPc : tPc[i] = "thrown"
     THEN /\ bPc' = "rejected"
          /\ UNCHANGED returned
     ELSE /\ bPc' = "resolved"
          /\ returned' = SortResults([i \in DOMAIN tPc |-> tResult[i]])
  /\ UNCHANGED <<configs, limit, limitReads, tPc, tAttempt, tResult>>
  /\ UNCHANGED retryVars
  /\ UNCHANGED <<validateVars, challengeVars, statisticsVars>>
  /\ UNCHANGED <<logVars, cacheVars, stringifyVars>>

\* ------------------------------------------------------------------------
\* Specifications
\* ------------------------------------------------------------------------
RetryIdle ==
  /\ rPc = "idle"
  /\ rAttempt = 0
  /\ rCalls = 0
  /\ rHist = <<>>
  /\ rResult = NoResult
  /\ rLog = <<>>

BatchIdle(cs) ==
  /\ configs = cs
  /\ bPc = "start"
  /\ limit = NoLimiter
  /\ limitReads = 0
  /\ tPc = [i \in 1..Len(cs) |-> "new"]
  /\ tAttempt = [i \in 1..Len(cs) |-> 0]
  /\ tResult = [i \in 1..Len(cs) |-> NoResult]
  /\ returned = <<>>

NoValidation == [valid |-> FALSE, extractedNumbers |-> NullMatch]

ValidateIdle(response, expectedAnswer) ==
  /\ vResponse = response
  /\ vExpected = expectedAnswer
  /\ vPc = "idle"
  /\ vResult = NoValidation

NoDraws == [a |-> 0, b |-> 0, isAddition |-> FALSE]

NoChallenge == [prompt |-> buildPromptWithExamples(<<>>), expectedAnswer |-> <<>>]

ChallengeIdle ==
  /\ gPc = "idle"
  /\ gDraws = NoDraws
  /\ gChallenge = NoChallenge

StatisticsIdle(items) ==
  /\ sItems = items
  /\ sPc = "idle"
  /\ sStats = EmptyStatistics

NoLoggedError ==
  [kind |-> "other", message |-> <<>>, statusCode |-> 0, responseBody |-> NoBody,
   props |-> <<>>]

NoLogEntry == [level |-> "none", context |-> "", ordinal |-> 0, payload |-> JsUndefined]

LogIdle(error) ==
  /\ lError = error
  /\ lPc = "idle"
  /\ lEntry = NoLogEntry

CacheIdle ==
  /\ globalThis = [k \in GlobalCacheKey |-> 0]
  /\ heap = <<>>
  /\ calls = <<>>

NoObjects == <<JsAbsent, JsAbsent>>

StringifyIdle(objs) ==
  /\ kObjs = objs
  /\ kPc = [i \in 1..2 |-> "idle"]
  /\ kStrings = [i \in 1..2 |-> <<>>]

\* a batch of checks
Init ==
  /\ \E cs \in ConfigLists : BatchIdle(cs)
  /\ rConfig = ProviderConfig("p1", "Alpha")
  /\ RetryIdle
  /\ ValidateIdle(<<>>, <<>>)
  /\ ChallengeIdle
  /\ StatisticsIdle(<<>>)
  /\ LogIdle(NoLoggedError)
  /\ CacheIdle
  /\ StringifyIdle(NoObjects)

Next == RunProviderChecks \/ Admit \/ (\E i \in 1..MaxConfigs : Settle(i)) \/ Resolve

Spec == Init /\ [][Next]_vars

\* batches for the runs under fairness: all configs of one name, or the
\* names Zeta, Alpha, mu in turn
NamePatterns ==
  { [i \in 1..MaxConfigs |-> "mu"],
    [i \in 1..MaxConfigs |->
       IF i % 3 = 1 THEN "Zeta" ELSE IF i % 3 = 2 THEN "Alpha" ELSE "mu"] }

FairConfigLists ==
  { [i \in 1..n |-> ProviderConfig(IdOf(i), pattern[i])] :
      n \in 0..MaxConfigs, pattern \in NamePatterns }

InitFair ==
  /\ \E cs \in FairConfigLists : BatchIdle(cs)
  /\ rConfig = ProviderConfig("p1", "Alpha")
  /\ RetryIdle
  /\ ValidateIdle(<<>>, <<>>)
  /\ ChallengeIdle
  /\ StatisticsIdle(<<>>)
  /\ LogIdle(NoLoggedError)
  /\ CacheIdle
  /\ StringifyIdle(NoObjects)

\* the event loop runs what is runnable, and every provider call settles
FairSpec ==
  /\ InitFair
  /\ [][Next]_vars
  /\ WF_vars(RunProviderChecks)
  /\ WF_vars(Admit)
  /\ \A i \in 1..MaxConfigs : WF_vars(Settle(i))
  /\ WF_vars(Resolve)

\* one call of checkWithRetry
InitRetry ==
  /\ rConfig \in RetryConfigs
  /\ RetryIdle
  /\ BatchIdle(<<>>)
  /\ ValidateIdle(<<>>, <<>>)
  /\ ChallengeIdle
  /\ StatisticsIdle(<<>>)
  /\ LogIdle(NoLoggedError)
  /\ CacheIdle
  /\ StringifyIdle(NoObjects)

NextRetry == RetryInvoke \/ RetrySettle

SpecRetry == InitRetry /\ [][NextRetry]_vars

\* one call of validateResponse
ValidateResponse ==
  /\ vPc = "idle"
  /\ vPc' = "returned"
  /\ vResult' = validateResponse(vResponse, vExpected)
  /\ UNCHANGED <<vResponse, vExpected>>
  /\ UNCHANGED <<retryVars, batchVars, challengeVars, statisticsVars>>
  /\ UNCHANGED <<logVars, cacheVars, stringifyVars>>

InitValidate ==
  /\ \E response \in Responses, expectedAnswer \in ExpectedAnswers :
       ValidateIdle(response, expectedAnswer)
  /\ rConfig = ProviderConfig("p1", "Alpha")
  /\ RetryIdle
  /\ BatchIdle(<<>>)
  /\ ChallengeIdle
  /\ StatisticsIdle(<<>>)
  /\ LogIdle(NoLoggedError)
  /\ CacheIdle
  /\ StringifyIdle(NoObjects)

NextValidate == ValidateResponse

SpecValidate == InitValidate /\ [][NextValidate]_vars

\* one call of generateChallenge, Math.random() returning r1, r2, r3 in turn
GenerateChallenge ==
  /\ gPc = "idle"
  /\ \E r1 \in MathRandom, r2 \in MathRandom, r3 \in MathRandom :
       LET call == generateChallenge(r1, r2, r3)
       IN /\ gDraws' = [a |-> call.a, b |-> call.b, isAddition |-> call.isAddition]
          /\ gChallenge' = call.challenge
  /\ gPc' = "returned"
  /\ UNCHANGED <<retryVars, batchVars, validateVars, statisticsVars>>
  /\ UNCHANGED <<logVars, cacheVars, stringifyVars>>

InitChallenge ==
  /\ ChallengeIdle
  /\ rConfig = ProviderConfig("p1", "Alpha")
  /\ RetryIdle
  /\ BatchIdle(<<>>)
  /\ ValidateIdle(<<>>, <<>>)
  /\ StatisticsIdle(<<>>)
  /\ LogIdle(NoLoggedError)
  /\ CacheIdle
  /\ StringifyIdle(NoObjects)

NextChallenge == GenerateChallenge

SpecChallenge == InitChallenge /\ [][NextChallenge]_vars

\* one call of computeStatistics
ComputeStatistics ==
  /\ sPc = "idle"
  /\ sPc' = "returned"
  /\ sStats' = computeStatistics(sItems)
  /\ UNCHANGED sItems
  /\ UNCHANGED <<retryVars, batchVars, validateVars, challengeVars>>
  /\ UNCHANGED <<logVars, cacheVars, stringifyVars>>

InitStatistics ==
  /\ \E items \in ItemLists : StatisticsIdle(items)
  /\ rConfig = ProviderConfig("p1", "Alpha")
  /\ RetryIdle
  /\ BatchIdle(<<>>)
  /\ ValidateIdle(<<>>, <<>>)
  /\ ChallengeIdle
  /\ LogIdle(NoLoggedError)
  /\ CacheIdle
  /\ StringifyIdle(NoObjects)

NextStatistics == ComputeStatistics

SpecStatistics == InitStatistics /\ [][NextStatistics]_vars

\* one call of logError
LogError ==
  /\ lPc = "idle"
  /\ lPc' = "returned"
  /\ lEntry' = logError("checkMyVendorStatus", lError)
  /\ UNCHANGED lError
  /\ UNCHANGED <<retryVars, batchVars, validateVars, challengeVars, statisticsVars>>
  /\ UNCHANGED <<cacheVars, stringifyVars>>

InitLog ==
  /\ \E error \in LoggedErrors : LogIdle(error)
  /\ rConfig = ProviderConfig("p1", "Alpha")
  /\ RetryIdle
  /\ BatchIdle(<<>>)
  /\ ValidateIdle(<<>>, <<>>)
  /\ ChallengeIdle
  /\ StatisticsIdle(<<>>)
  /\ CacheIdle
  /\ StringifyIdle(NoObjects)

NextLog == LogError

SpecLog == InitLog /\ [][NextLog]_vars

\* one call of getOrCreateClientCache
GetOrCreateClientCache ==
  /\ Len(calls) < MaxCalls
  /\ \E globalKey \in GlobalCacheKey :
       LET call == getOrCreateClientCache(globalThis, heap, globalKey)
       IN /\ globalThis' = call.globalThis
          /\ heap' = call.heap
          /\ calls' = Append(calls, [globalKey |-> globalKey, cache |-> call.cache,
                                     entries |-> call.heap[call.cache]])
  /\ UNCHANGED <<retryVars, batchVars, validateVars, challengeVars, statisticsVars>>
  /\ UNCHANGED <<logVars, stringifyVars>>

\* a caller stores a client in the map a call returned to it (lines 38-42)
CacheSet ==
  /\ \E i \in DOMAIN calls, cacheKey \in CacheKeys, client \in Clients :
       heap' = [heap EXCEPT ![calls[i].cache][cacheKey] = client]
  /\ UNCHANGED <<globalThis, calls>>
  /\ UNCHANGED <<retryVars, batchVars, validateVars, challengeVars, statisticsVars>>
  /\ UNCHANGED <<logVars, stringifyVars>>

InitCache ==
  /\ CacheIdle
  /\ rConfig = ProviderConfig("p1", "Alpha")
  /\ RetryIdle
  /\ BatchIdle(<<>>)
  /\ ValidateIdle(<<>>, <<>>)
  /\ ChallengeIdle
  /\ StatisticsIdle(<<>>)
  /\ LogIdle(NoLoggedError)
  /\ StringifyIdle(NoObjects)

NextCache == GetOrCreateClientCache \/ CacheSet

SpecCache == InitCache /\ [][NextCache]_vars

\* call i of stableStringify
StableStringify(i) ==
  /\ kPc[i] = "idle"
  /\ kPc' = [kPc EXCEPT ![i] = "returned"]
  /\ kStrings' = [kStrings EXCEPT ![i] = stableStringify(kObjs[i])]
  /\ UNCHANGED kObjs
  /\ UNCHANGED <<retryVars, batchVars, validateVars, challengeVars, statisticsVars>>
  /\ UNCHANGED <<logVars, cacheVars>>

InitStringify ==
  /\ \E objs \in ObjectPairs : StringifyIdle(objs)
  /\ rConfig = ProviderConfig("p1", "Alpha")
  /\ RetryIdle
  /\ BatchIdle(<<>>)
  /\ ValidateIdle(<<>>, <<>>)
  /\ ChallengeIdle
  /\ StatisticsIdle(<<>>)
  /\ LogIdle(NoLoggedError)
  /\ CacheIdle

NextStringify == \E i \in 1..2 : StableStringify(i)

SpecStringify == InitStringify /\ [][NextStringify]_vars

\* ------------------------------------------------------------------------
\* Properties of checkWithRetry (SpecRetry)
\* ------------------------------------------------------------------------
LastOutcome == rHist[Len(rHist)]

\* the message checkWithRetry extracts from a thrown value matches the pattern
ExtractedMessageMatches(error) == REQUEST_ABORTED_PATTERN(getErrorMessage(error))

\* the message of the thrown value itself matches the pattern
OwnMessageMatches(error) == REQUEST_ABORTED_PATTERN(error.message)

FailedWithAbortMessage(result) ==
  result.status = "failed" /\ REQUEST_ABORTED_PATTERN(result.message)

IsTerminalErrorResult(result, message) ==
  /\ result.status = "error"
  /\ result.latencyMs = Null
  /\ result.pingLatencyMs = Null
  /\ result.id = rConfig.id
  /\ result.name = rConfig.name
  /\ result.type = rConfig.type
  /\ result.endpoint = rConfig.endpoint
  /\ result.model = rConfig.model
  /\ result.message = message

\* C1: whatever the attempts return or throw, checkWithRetry never throws:
\* the loop is never left without a return (the throw of line 70 is
\* unreachable), and once it has settled it has resolved with a check result.
C1_NeverThrows ==
  /\ rPc # "thrown"
  /\ rAttempt <= MAX_REQUEST_ABORT_RETRIES
  /\ rPc = "returned" => rResult # NoResult /\ rResult.status \in Statuses

\* C1 witness: the third attempt ended in a retryable abort and the call
\* still resolved
C1_Witness ==
  /\ rPc = "returned"
  /\ Len(rHist) = 3
  /\ LastOutcome.kind = "throw"
  /\ ExtractedMessageMatches(LastOutcome.error)

\* C3 as stated: at most 3 provider calls, and attempt k+1 is made only when
\* attempt k threw an error whose own message matches the pattern or returned
\* a 'failed' result whose message matches it.
C3_RetryOnlyOnOwnMessage ==
  /\ rCalls <= 3
  /\ \A k \in 1..Len(rHist) :
       k < rCalls =>
         \/ rHist[k].kind = "throw" /\ OwnMessageMatches(rHist[k].error)
         \/ rHist[k].kind = "return" /\ FailedWithAbortMessage(rHist[k].result)

\* C3 amended: at most 3 provider calls, and attempt k+1 is made only when
\* attempt k threw an error whose extracted message (getErrorMessage) matches
\* the pattern or returned a 'failed' result whose message matches it.
C3_RetryOnlyOnExtractedMessage ==
  /\ rCalls <= 3
  /\ \A k \in 1..Len(rHist) :
       k < rCalls =>
         \/ rHist[k].kind = "throw" /\ ExtractedMessageMatches(rHist[k].error)
         \/ rHist[k].kind = "return" /\ FailedWithAbortMessage(rHist[k].result)

\* C3 witness: three calls were made, the first retry after an error whose
\* own message does not match while the one found in its response body does
C3_Witness ==
  /\ rCalls = 3
  /\ Len(rHist) = 3
  /\ rHist[1].kind = "throw"
  /\ ~OwnMessageMatches(rHist[1].error)
  /\ rHist[2].kind = "return"

\* a thrown Error that carries the abort message and no response body
IsPlainAbort(outcome) ==
  /\ outcome.kind = "throw"
  /\ outcome.error.kind = "Error"
  /\ OwnMessageMatches(outcome.error)
  /\ outcome.error.responseBody = NoBody

C5_ReturnsLaterAttempt ==
  (/\ Len(rHist) >= 2
   /\ LastOutcome.kind = "return"
   /\ ~FailedWithAbortMessage(LastOutcome.result))
  => /\ rPc = "returned"
     /\ rResult = LastOutcome.result
     /\ rCalls = Len(rHist)
     /\ \A k \in 1..(Len(rHist) - 1) : rResult # rHist[k].result

\* C5 witness: two retried attempts, one thrown and one returned as
\* 'failed', then an operational result
C5_Witness ==
  /\ rPc = "returned"
  /\ Len(rHist) = 3
  /\ rHist[1].kind = "throw"
  /\ rHist[2].kind = "return"
  /\ rResult.status = "operational"
  /\ rResult = rHist[3].result

\* C6 as stated: after a thrown error whose own message does not match the
\* pattern no further attempt is made: the call has resolved with an 'error'
\* result of null latencies and the config's identity.
C6_NoRetryOnOwnMessage ==
  (/\ Len(rHist) >= 1
   /\ LastOutcome.kind = "throw"
   /\ ~OwnMessageMatches(LastOutcome.error))
  => /\ rPc = "returned"
     /\ rCalls = Len(rHist)
     /\ IsTerminalErrorResult(rResult, rResult.message)

\* C6 amended: after a thrown error whose extracted message (getErrorMessage)
\* does not match the pattern no further attempt is made, whatever the
\* attempt number: the call has resolved with an 'error' result of null
\* latencies and the config's identity.
C6_NoRetryOnExtractedMessage ==
  (/\ Len(rHist) >= 1
   /\ LastOutcome.kind = "throw"
   /\ ~ExtractedMessageMatches(LastOutcome.error))
  => /\ rPc = "returned"
     /\ rCalls = Len(rHist)
     /\ rResult.checkedAt = Len(rHist)
     /\ IsTerminalErrorResult(rResult, rResult.message)

\* C6 witness: the second attempt threw an error that carries the abort
\* message but whose response body gives another one; the call ended there
C6_Witness ==
  /\ rPc = "returned"
  /\ Len(rHist) = 2
  /\ LastOutcome.kind = "throw"
  /\ OwnMessageMatches(LastOutcome.error)
  /\ ~ExtractedMessageMatches(LastOutcome.error)
  /\ rResult.status = "error"

CredentialValues == {"sk-live-9f8e7d6c5b4a3210"}

\* C10: the message of a terminal 'error' result never shows, unmasked, a
\* credential-shaped value that the thrown error carried in its message or
\* its response body.
C10_MessageSanitized ==
  (/\ rPc = "returned"
   /\ LastOutcome.kind = "throw")
  => ~Contains(rResult.message, CredentialValues)

\* ------------------------------------------------------------------------
\* Properties of runProviderChecks (Spec, FairSpec)
\* ------------------------------------------------------------------------
\* the checkWithRetry invocations that have started and not completed
InFlight == { i \in DOMAIN tPc : tPc[i] = "calling" }

Finished == { i \in DOMAIN tPc : tPc[i] = "returned" }

NamesOf(seq) == [i \in DOMAIN seq |-> seq[i].name]

IndexOfId(id) == CHOOSE k \in DOMAIN configs : configs[k].id = id

\* C2: at every moment of a run with concurrency limit L at most L
\* invocations of checkWithRetry have started and not yet completed.
C2_ConcurrencyCeiling ==
  /\ Cardinality(InFlight) <= limit.concurrency
  /\ bPc # "start" /\ Len(configs) > 0 => limit.concurrency \in 1..MaxLimit

\* C2 witness: one check has completed, the limit is reached and a check is
\* still waiting for a slot
C2_Witness ==
  /\ bPc = "awaiting"
  /\ Finished # {}
  /\ Cardinality(InFlight) = limit.concurrency
  /\ limit.queue # <<>>

\* C7: the array a non-empty batch resolves with is in ascending order of
\* name under the locale's collation, and results of equal name keep the
\* order of their configs: the order of completion plays no part.
C7_SortedByName ==
  (bPc = "resolved" /\ Len(configs) > 0)
  => /\ \A k \in 1..(Len(returned) - 1) :
          LocaleRank(returned[k].name) <= LocaleRank(returned[k + 1].name)
     /\ \A k \in 1..(Len(returned) - 1) :
          returned[k].name = returned[k + 1].name
            => IndexOfId(returned[k].id) < IndexOfId(returned[k + 1].id)

\* C7 witness: configs Zeta, Alpha, mu came back as Alpha, mu, Zeta
C7_Witness ==
  /\ bPc = "resolved"
  /\ NamesOf(configs) = <<"Zeta", "Alpha", "mu">>
  /\ NamesOf(returned) = <<"Alpha", "mu", "Zeta">>

\* what the batch resolved with is complete: every check has completed, and
\* the array holds the result of each config, once
CompleteBatch ==
  /\ \A i \in DOMAIN configs : tPc[i] = "returned"
  /\ Len(returned) = Len(configs)
  /\ \A i \in DOMAIN configs :
       /\ Cardinality({ k \in DOMAIN returned : returned[k].id = configs[i].id }) = 1
       /\ \E k \in DOMAIN returned : returned[k] = tResult[i]

\* C8: a batch of N configs never resolves with a partial array (it resolves
\* after all N checks, with N results, one per config), no provider's thrown
\* error or failure makes it reject, and when every provider call settles
\* the batch does resolve.
C8_WholeBatch ==
  /\ [](bPc = "resolved" /\ Len(configs) > 0 => CompleteBatch)
  /\ [](bPc # "rejected")
  /\ <>(bPc = "resolved")

\* C8 witness: a batch of three resolved with an 'error' result next to an
\* operational one
C8_Witness ==
  /\ bPc = "resolved"
  /\ Len(returned) = 3
  /\ \E k \in DOMAIN returned : returned[k].status = "error"
  /\ \E k \in DOMAIN returned : returned[k].status = "operational"

\* C9: an empty config list resolves to an empty array; the concurrency
\* limit is not read, no limiter is made and no provider check is called.
C9_EmptyBatch ==
  (Len(configs) = 0 /\ bPc # "start")
  => /\ bPc = "resolved"
     /\ returned = <<>>
     /\ limitReads = 0
     /\ limit = NoLimiter
     /\ InFlight = {}

\* C9 witness: the empty batch has resolved
C9_Witness ==
  /\ Len(configs) = 0
  /\ bPc = "resolved"
  /\ returned = <<>>


\* ------------------------------------------------------------------------
\* Properties of validateResponse (SpecValidate)
\* ------------------------------------------------------------------------
\* the maximal runs of digits of s, as pairs of first and last position
DigitRuns(s) ==
  { run \in (1..Len(s)) \X (1..Len(s)) :
      /\ run[1] <= run[2]
      /\ \A k \in run[1]..run[2] : s[k] \in Digits
      /\ run[1] = 1 \/ s[run[1] - 1] \notin Digits
      /\ run[2] = Len(s) \/ s[run[2] + 1] \notin Digits }

\* the numeric token of a run: the run, with the minus sign right before it
\* when there is one
TokenOf(s, run) ==
  IF run[1] > 1 /\ s[run[1] - 1] = "-"
  THEN SubSeq(s, run[1] - 1, run[2])
  ELSE SubSeq(s, run[1], run[2])

\* the tokens of s from left to right
TokensOf(s) ==
  LET runs == DigitRuns(s)
      nth(k) == CHOOSE run \in runs :
                  Cardinality({ r \in runs : r[1] < run[1] }) = k - 1
  IN [k \in 1..Cardinality(runs) |-> TokenOf(s, nth(k))]

\* C11: for a non-empty response and a non-empty expected answer the numbers
\* extracted are the tokens -?[0-9]+ of the response from left to right, and
\* the response is valid exactly when the expected answer equals one of
\* them; the response 18 does not validate the answer 8
C11_ValidIffTokenEqual ==
  (vPc = "returned" /\ vResponse # <<>> /\ vExpected # <<>>) =>
    /\ vResult.extractedNumbers.items = TokensOf(vResponse)
    /\ vResult.valid <=>
         \E run \in DigitRuns(vResponse) : TokenOf(vResponse, run) = vExpected
    /\ (vResponse = <<"1", "8">> /\ vExpected = <<"8">>) => ~vResult.valid

C11_Witness ==
  /\ vPc = "returned"
  /\ vResponse = <<"1", "8">>
  /\ vExpected = <<"8">>
  /\ vResult.extractedNumbers = MatchArray(<< <<"1", "8">> >>)
  /\ ~vResult.valid

\* C12: when the response is empty, the expected answer is empty, or the
\* response holds no numeric token, the result is valid false with
\* extractedNumbers null; a result always comes back, and its
\* extractedNumbers is never an empty array
C12_NullWithoutNumbers ==
  vPc = "returned" =>
    /\ vResult.valid \in BOOLEAN
    /\ ~vResult.extractedNumbers.isNull => vResult.extractedNumbers.items # <<>>
    /\ ( \/ vResponse = <<>>
         \/ vExpected = <<>>
         \/ \A k \in DOMAIN vResponse : vResponse[k] \notin Digits )
       => vResult = [valid |-> FALSE, extractedNumbers |-> NullMatch]

C12_Witness ==
  /\ vPc = "returned"
  /\ vResponse = <<"8">>
  /\ vExpected = <<>>
  /\ vResult.extractedNumbers.isNull
  /\ ~vResult.valid

\* ------------------------------------------------------------------------
\* Properties of generateChallenge (SpecChallenge)
\* ------------------------------------------------------------------------
DigitValue(c) == CHOOSE d \in 0..9 : DigitChar(d) = c

RECURSIVE DecimalValue(_)
DecimalValue(str) ==
  IF str = <<>> THEN 0
  ELSE 10 * DecimalValue(SubSeq(str, 1, Len(str) - 1)) + DigitValue(str[Len(str)])

\* str is the decimal string of the natural number n
IsDecimalOf(str, n) ==
  /\ str # <<>>
  /\ \A k \in DOMAIN str : str[k] \in Digits
  /\ Len(str) = 1 \/ str[1] # "0"
  /\ DecimalValue(str) = n

\* the question reads "hi - lo = ?"
IsSubtractionOf(question, hi, lo) ==
  \E k \in 1..Len(question) :
    /\ IsDecimalOf(SubSeq(question, 1, k), hi)
    /\ SubSeq(question, k + 1, k + 3) = <<" ", "-", " ">>
    /\ IsDecimalOf(SubSeq(question, k + 4, Len(question) - 4), lo)
    /\ SubSeq(question, Len(question) - 3, Len(question)) = <<" ", "=", " ", "?">>

\* C13: whatever the three random draws, both operands lie in 1..50; an
\* addition expects the decimal string of a + b; a subtraction shows the
\* larger operand first and expects the decimal string of |a - b|, never a
\* negative number
C13_OperandsAndAnswer ==
  gPc = "returned" =>
    /\ gDraws.a \in 1..50
    /\ gDraws.b \in 1..50
    /\ IF gDraws.isAddition
       THEN IsDecimalOf(gChallenge.expectedAnswer, gDraws.a + gDraws.b)
       ELSE \E hi \in {gDraws.a, gDraws.b}, lo \in {gDraws.a, gDraws.b} :
              /\ {hi, lo} = {gDraws.a, gDraws.b}
              /\ hi >= lo
              /\ IsSubtractionOf(gChallenge.prompt.question, hi, lo)
              /\ IsDecimalOf(gChallenge.expectedAnswer, hi - lo)

C13_Witness ==
  /\ gPc = "returned"
  /\ ~gDraws.isAddition
  /\ gDraws.a = 3
  /\ gDraws.b = 50
  /\ gChallenge.prompt.question = <<"5", "0", " ", "-", " ", "3", " ", "=", " ", "?">>
  /\ gChallenge.expectedAnswer = <<"4", "7">>

\* ------------------------------------------------------------------------
\* Properties of computeStatistics (SpecStatistics)
\* ------------------------------------------------------------------------
Successes(items) ==
  Cardinality({ i \in DOMAIN items : items[i].status \in {"operational", "degraded"} })

\* x is num / den rounded to the nearest integer, a half going up
IsRounded(x, num, den) == -den < 2 * (x * den - num) /\ 2 * (x * den - num) <= den

\* C14: successRate is 100 * (operational + degraded) / totalChecks rounded
\* to two decimals, totalChecks being the length of the list, items of
\* status error included; 3 operational, 1 degraded and 1 failed give 80
C14_SuccessRate ==
  (sPc = "returned" /\ sItems # <<>>) =>
    /\ sStats.totalChecks = Len(sItems)
    /\ IsRounded(sStats.successRate, 100 * 100 * Successes(sItems), Len(sItems))
    /\ ( /\ Len(sItems) = 5
         /\ CountOf(sItems, "operational") = 3
         /\ CountOf(sItems, "degraded") = 1
         /\ CountOf(sItems, "failed") = 1 ) => sStats.successRate = 80 * 100

C14_Witness ==
  /\ sPc = "returned"
  /\ Len(sItems) = 5
  /\ CountOf(sItems, "operational") = 3
  /\ CountOf(sItems, "degraded") = 1
  /\ CountOf(sItems, "failed") = 1
  /\ sStats.successRate = 80 * 100

Measured(items) == { i \in DOMAIN items : items[i].latencyMs # Null }

RECURSIVE LatencySum(_, _)
LatencySum(items, indices) ==
  IF indices = {} THEN 0
  ELSE LET i == CHOOSE j \in indices : TRUE
       IN items[i].latencyMs + LatencySum(items, indices \ {i})

\* C15: for a list with at least one latency, min <= avg <= max, min and
\* max being the least and the greatest of the latencies that are not null
\* and avg their mean rounded to the nearest integer
C15_LatencyOrder ==
  (sPc = "returned" /\ Measured(sItems) # {}) =>
    /\ sStats.minLatencyMs <= sStats.avgLatencyMs
    /\ sStats.avgLatencyMs <= sStats.maxLatencyMs
    /\ \E i \in Measured(sItems) : sItems[i].latencyMs = sStats.minLatencyMs
    /\ \E i \in Measured(sItems) : sItems[i].latencyMs = sStats.maxLatencyMs
    /\ \A i \in Measured(sItems) :
         /\ sStats.minLatencyMs <= sItems[i].latencyMs
         /\ sItems[i].latencyMs <= sStats.maxLatencyMs
    /\ IsRounded(sStats.avgLatencyMs, LatencySum(sItems, Measured(sItems)),
                 Cardinality(Measured(sItems)))

C15_Witness ==
  /\ sPc = "returned"
  /\ \E i \in DOMAIN sItems : sItems[i].latencyMs = Null
  /\ sStats.minLatencyMs = 100
  /\ sStats.avgLatencyMs = 101
  /\ sStats.maxLatencyMs = 101
  /\ Cardinality(Measured(sItems)) = 2

\* C16: for an empty list totalChecks and the four counters are 0,
\* successRate is 0, and the three latencies are null
C16_EmptyList ==
  (sPc = "returned" /\ sItems = <<>>) =>
    /\ sStats.totalChecks = 0
    /\ sStats.operationalCount = 0
    /\ sStats.degradedCount = 0
    /\ sStats.failedCount = 0
    /\ sStats.validationFailedCount = 0
    /\ sStats.successRate = 0
    /\ sStats.avgLatencyMs = Null
    /\ sStats.minLatencyMs = Null
    /\ sStats.maxLatencyMs = Null

C16_Witness ==
  /\ sPc = "returned"
  /\ sItems = <<>>
  /\ sStats.totalChecks = 0
  /\ sStats.avgLatencyMs = Null


\* ------------------------------------------------------------------------
\* Further properties of checkWithRetry (SpecRetry)
\* ------------------------------------------------------------------------
\* C17: when all three attempts return a result of status 'failed' whose
\* message matches the pattern, the call resolves with the third attempt's
\* result unchanged: status 'failed', its latency fields kept, not turned
\* into an 'error' result
C17_ExhaustedReturnsThird ==
  (/\ Len(rHist) = MAX_REQUEST_ABORT_RETRIES + 1
   /\ \A k \in 1..Len(rHist) :
        rHist[k].kind = "return" /\ FailedWithAbortMessage(rHist[k].result))
  => /\ rPc = "returned"
     /\ rResult = rHist[Len(rHist)].result
     /\ rResult.status = "failed"
     /\ rResult.latencyMs # Null
     /\ rResult.pingLatencyMs # Null
     /\ rCalls = Len(rHist)

C17_Witness ==
  /\ rPc = "returned"
  /\ Len(rHist) = 3
  /\ \A k \in 1..3 : rHist[k].kind = "return" /\ FailedWithAbortMessage(rHist[k].result)
  /\ rResult = rHist[3].result
  /\ rResult.latencyMs = 120

\* a returned result that C18 speaks of
IsFinalResult(result) ==
  \/ result.status \in {"operational", "degraded", "validation_failed"}
  \/ result.status = "failed" /\ ~REQUEST_ABORTED_PATTERN(result.message)

\* C18: a result of status operational, degraded or validation_failed, or
\* of status failed with a message that does not match the pattern, is
\* returned unchanged from the attempt that got it and no further attempt
\* is made, also when the status is not 'failed' and the message matches
C18_FinalResultReturnedAtOnce ==
  \A k \in 1..Len(rHist) :
    (rHist[k].kind = "return" /\ IsFinalResult(rHist[k].result))
    => /\ k = Len(rHist)
       /\ rPc = "returned"
       /\ rResult = rHist[k].result
       /\ rCalls = k

C18_Witness ==
  /\ rPc = "returned"
  /\ Len(rHist) = 1
  /\ rCalls = 1
  /\ rHist[1].kind = "return"
  /\ rHist[1].result.status = "degraded"
  /\ REQUEST_ABORTED_PATTERN(rHist[1].result.message)
  /\ rResult = rHist[1].result


\* ------------------------------------------------------------------------
\* Further properties of runProviderChecks (Spec, FairSpec)
\* ------------------------------------------------------------------------
Waiting == { i \in DOMAIN tPc : tPc[i] \in {"new", "queued"} }

\* C19: a config's retries run inside the slot taken for its first attempt:
\* the slots in use are those of the configs with a provider call in
\* flight, never more than the limit; a retry leaves the limiter and every
\* other config as they are; and a step changes the attempt counter of at
\* most one config, one whose own provider call was in flight
C19_RetriesHoldSlot ==
  /\ [](/\ limit.activeCount = Cardinality(InFlight)
        /\ Cardinality(InFlight) <= limit.concurrency)
  /\ [][\A i \in DOMAIN tAttempt :
          tAttempt'[i] # tAttempt[i] =>
            /\ tPc[i] = "calling"
            /\ \A j \in DOMAIN tAttempt \ {i} : tAttempt'[j] = tAttempt[j]
            /\ tAttempt'[i] > tAttempt[i] => (limit' = limit /\ tPc' = tPc)]_vars

C19_Witness ==
  /\ bPc = "awaiting"
  /\ limit.concurrency = 2
  /\ limit.activeCount = 2
  /\ limit.queue # <<>>
  /\ \E i \in InFlight, j \in InFlight : tAttempt[i] = 2 /\ tAttempt[j] = 1

\* C20: with more configs than the limit the waiting checks start in the
\* order of submission: no check has started while one submitted before it
\* waits; when a check ends while others wait, the first of the queue
\* starts in the same step; and every check is started in the end
C20_AdmittedInOrder ==
  /\ [](\A i \in DOMAIN tPc, j \in DOMAIN tPc :
          (j < i /\ i \notin Waiting) => j \notin Waiting)
  /\ [][\A i \in DOMAIN tPc :
          (tPc[i] = "calling" /\ tPc'[i] # "calling" /\ limit.queue # <<>>) =>
            /\ tPc'[Head(limit.queue)] = "calling"
            /\ limit'.activeCount = limit.activeCount]_vars
  /\ <>(Waiting = {})

C20_Witness ==
  /\ bPc = "awaiting"
  /\ Len(configs) = 3
  /\ limit.concurrency = 1
  /\ tPc[1] = "returned"
  /\ tPc[2] = "calling"
  /\ tPc[3] = "queued"


\* ------------------------------------------------------------------------
\* Further properties of computeStatistics (SpecStatistics)
\* ------------------------------------------------------------------------
ErrorItems(items) == { i \in DOMAIN items : items[i].status = "error" }

\* C21: totalChecks is the number of items, and the four named counters
\* add up to totalChecks less the number of items of status 'error': such
\* an item raises the denominator and none of the counters
C21_ErrorItemsUncounted ==
  sPc = "returned" =>
    /\ sStats.totalChecks = Len(sItems)
    /\ sStats.operationalCount + sStats.degradedCount + sStats.failedCount
         + sStats.validationFailedCount
       = sStats.totalChecks - Cardinality(ErrorItems(sItems))

C21_Witness ==
  /\ sPc = "returned"
  /\ sStats.totalChecks = 3
  /\ Cardinality(ErrorItems(sItems)) = 2
  /\ sStats.failedCount = 1
  /\ sStats.operationalCount = 0
  /\ sStats.degradedCount = 0
  /\ sStats.validationFailedCount = 0

\* C22: the three latency fields are all null exactly when no item has a
\* latency, also for a list that is not empty; they are null together or
\* not null together; and the items without a latency are not in the
\* divisor of the average
C22_LatenciesNullTogether ==
  sPc = "returned" =>
    /\ sStats.avgLatencyMs = Null <=> Measured(sItems) = {}
    /\ sStats.minLatencyMs = Null <=> sStats.avgLatencyMs = Null
    /\ sStats.maxLatencyMs = Null <=> sStats.avgLatencyMs = Null
    /\ Measured(sItems) # {} =>
         \E k \in 1..Len(sItems) :
           /\ k = Cardinality(Measured(sItems))
           /\ IsRounded(sStats.avgLatencyMs, LatencySum(sItems, Measured(sItems)), k)

C22_Witness ==
  /\ sPc = "returned"
  /\ sStats.totalChecks = 2
  /\ Measured(sItems) = {}
  /\ sStats.avgLatencyMs = Null
  /\ sStats.minLatencyMs = Null
  /\ sStats.maxLatencyMs = Null


\* ------------------------------------------------------------------------
\* Properties of logError (SpecLog)
\* ------------------------------------------------------------------------
\* a string as it may be logged under a sensitive key: itself when it has
\* at most 8 characters, else its first 4, '***' and its last 4
MaskedForm(value) ==
  IF TextLen(value.s) <= 8 THEN value
  ELSE JsString(SliceText(value.s, 4) \o <<Tok("***")>> \o SliceLast(value.s, 4))

\* out shows every property of in, and every string that in holds under a
\* sensitive key, at any depth, in its masked form
RECURSIVE MaskedAtEveryDepth(_, _)
MaskedAtEveryDepth(in, out) ==
  in.t \in {"object", "Error", "array"} =>
    \A i \in DOMAIN in.kids :
      \E j \in DOMAIN out.kids :
        /\ out.kids[j].key = in.kids[i].key
        /\ (in.kids[i].value.t = "string" /\ SENSITIVE_PATTERNS(in.kids[i].key))
             => out.kids[j].value = MaskedForm(in.kids[i].value)
        /\ MaskedAtEveryDepth(in.kids[i].value, out.kids[j].value)

\* C23: in the payload logError hands to the sink every string stored
\* under a sensitive key, at any nesting depth of the error object, is
\* unchanged when it has at most 8 characters and else shows only its
\* first 4 and last 4 characters around '***', also when it lies inside
\* an object that itself sits under a sensitive key
C23_SensitiveStringsMasked ==
  lPc = "returned" => MaskedAtEveryDepth(ThrownValue(lError), lEntry.payload)


\* ------------------------------------------------------------------------
\* Properties of getOrCreateClientCache (SpecCache)
\* ------------------------------------------------------------------------
\* the calls made before call i for the same global key
EarlierCalls(i) == { j \in 1..(i - 1) : calls[j].globalKey = calls[i].globalKey }

\* C24: after any sequence of calls, the calls with one global key have
\* all returned the same map and calls with different keys different
\* maps; the first call for a key returns an empty map; a call neither
\* replaces nor clears a map that exists, so that a later caller of a key
\* sees the entries stored in its map
C24_OneMapPerKey ==
  /\ [](\A i \in DOMAIN calls, j \in DOMAIN calls :
          calls[i].globalKey = calls[j].globalKey <=> calls[i].cache = calls[j].cache)
  /\ [](\A i \in DOMAIN calls :
          /\ calls[i].cache \in DOMAIN heap
          /\ globalThis[calls[i].globalKey] = calls[i].cache
          /\ EarlierCalls(i) = {} => calls[i].entries = EmptyMap)
  /\ [][Len(calls') > Len(calls) =>
          LET call == calls'[Len(calls')]
          IN /\ \A ref \in DOMAIN heap : heap'[ref] = heap[ref]
             /\ \A k \in GlobalCacheKey : globalThis[k] # 0 => globalThis'[k] = globalThis[k]
             /\ \A j \in DOMAIN calls :
                  calls[j].globalKey = call.globalKey =>
                    call.entries = heap[calls[j].cache]]_vars

C24_Witness ==
  /\ Len(calls) = 3
  /\ calls[1].globalKey = calls[2].globalKey
  /\ calls[1].cache = calls[2].cache
  /\ calls[1].entries = EmptyMap
  /\ \E cacheKey \in CacheKeys : calls[2].entries[cacheKey] = "client1"
  /\ calls[3].globalKey # calls[1].globalKey
  /\ calls[3].cache # calls[1].cache
  /\ calls[3].entries = EmptyMap

\* ------------------------------------------------------------------------
\* Properties of stableStringify (SpecStringify)
\* ------------------------------------------------------------------------
\* the key/value pairs of an object, none for null and undefined
PairsOf(obj) == { <<obj.props[i].key, obj.props[i].value>> : i \in DOMAIN obj.props }

\* str is the pairs in ascending order of their keys, each as key=value,
\* with '&' between them
IsSortedPairs(str, pairs) ==
  LET n == Cardinality(pairs)
  IN /\ Len(str) = IF n = 0 THEN 0 ELSE 4 * n - 1
     /\ \A g \in 1..n :
          /\ <<str[4 * g - 3], str[4 * g - 1]>> \in pairs
          /\ str[4 * g - 2] = "="
          /\ g < n => (str[4 * g] = "&" /\ CodeUnitBefore(str[4 * g - 3], str[4 * g + 1]))

\* C25: two objects with the same key/value pairs give the same string
\* whatever the order in which their keys were defined: the pairs in the
\* order of their keys, as key=value joined with '&'; null and an absent
\* object give the empty string
C25_KeyOrderIndependent ==
  /\ \A i \in 1..2 :
       kPc[i] = "returned" =>
         /\ kObjs[i].t # "object" => kStrings[i] = <<>>
         /\ kObjs[i].t = "object" => IsSortedPairs(kStrings[i], PairsOf(kObjs[i]))
  /\ ( /\ kPc[1] = "returned"
       /\ kPc[2] = "returned"
       /\ kObjs[1].t = "object"
       /\ kObjs[2].t = "object"
       /\ PairsOf(kObjs[1]) = PairsOf(kObjs[2]) ) => kStrings[1] = kStrings[2]

C25_Witness ==
  /\ kPc[1] = "returned"
  /\ kPc[2] = "returned"
  /\ ObjectKeys(kObjs[1]) = <<"b", "B", "ab">>
  /\ ObjectKeys(kObjs[2]) = <<"ab", "b", "B">>
  /\ PairsOf(kObjs[1]) = PairsOf(kObjs[2])
  /\ kStrings[1] = <<"B", "=", "1", "&", "ab", "=", "2", "&", "b", "=", "1">>
  /\ kStrings[2] = kStrings[1]

====
